---- MODULE Spec2Model ----
(***************************************************************************)
(* Knowledge-point extraction pipeline of the Vault backend:               *)
(*   KnowledgePointExtractor (app/services/knowledge_extractor.py) driven  *)
(*   by process_document_background (app/api/teacher/documents.py).        *)
(*                                                                         *)
(* A text is a sequence of lines.  Every line is one of a fixed alphabet   *)
(* of concrete lines (LineKinds); the tables below record, for each of     *)
(* them, what the regular expressions of the source find in it.           *)
(***************************************************************************)
EXTENDS Integers, Sequences, FiniteSets, TLC

(***************************************************************************)
(* Bounds of the model.                                                    *)
(***************************************************************************)
MaxLines == 3
LiveMaxLines == 2
MaxDrafts == 4
MaxRuns == 2
MaxSideLines == 2

(***************************************************************************)
(* The alphabet of lines.                                                  *)
(*   blank    ""                                                           *)
(*   chapA    "第一章 排序算法"                                             *)
(*   chapD    "第三章 算法：排序与查找的基本方法。"                           *)
(*   num      "1. 排序算法"                                                 *)
(*   long     "排序算法 查找算法 反复练习才能真正掌握其中的核心思想并且      *)
(*             灵活运用各种数据结构完成复杂的任务处理 基础内容"  (one line)  *)
(*   mid      "查找算法 数据结构 合理组织才能保证程序高效稳定地运行起来      *)
(*             基础内容"                                       (one line)  *)
(*   short    "基础内容 排序算法"                                           *)
(*   bullet   "• 查找算法"                                                  *)
(*   defn     "计算机科学是指对计算和信息处理的系统性研究。"                  *)
(*   example  "示例1：排序算法的时间复杂度分析。"                            *)
(*   sub      "（1）插入排序"                                               *)
(*   latin    "Python 排序算法 Quicksort 基础内容 Quicksort                 *)
(*             反复练习才能真正掌握其中的核心思想并且"          (one line)  *)
(* and four more lines, met in a few chosen texts only:                    *)
(*   chapI    "第一章 导论"                                                 *)
(*   bulletA  "• 算法"                                                      *)
(*   bulletD  "• 数据结构"                                                  *)
(*   wide     "数组 链表 队列 栈区 哈希 树形 图论 堆区 字符 指针 函数 变量   *)
(*             循环 递归 遍历 索引"          (one line, sixteen words)      *)
(***************************************************************************)
LineKinds ==
  {"blank", "chapA", "chapD", "num", "long", "mid", "short",
   "bullet", "defn", "example", "sub", "latin"}

ExampleKinds == {"chapI", "bulletA", "bulletD", "wide"}

\* len(line)
LineLen(k) ==
  CASE k = "blank"   -> 0
    [] k = "chapA"   -> 8
    [] k = "chapD"   -> 18
    [] k = "num"     -> 7
    [] k = "long"    -> 54
    [] k = "mid"     -> 34
    [] k = "short"   -> 9
    [] k = "bullet"  -> 6
    [] k = "defn"    -> 22
    [] k = "example" -> 17
    [] k = "sub"     -> 7
    [] k = "latin"   -> 57
    [] k = "chapI"   -> 6
    [] k = "bulletA" -> 4
    [] k = "bulletD" -> 6
    [] k = "wide"    -> 47

(***************************************************************************)
(* Words.  A word is a maximal run matched by [一-龥]{2,} or by    *)
(* [a-zA-Z]{3,}.  Each CJK run is named by an ASCII atom, the Latin words  *)
(* Python and Quicksort by python and quicksort, the words of the line     *)
(* wide by w1 .. w16:                                                      *)
(*   ch1 第一章, ch3 第三章, sort 排序算法, search 查找算法, algo 算法,      *)
(*   methods 排序与查找的基本方法, practice 反复练习…并且 (20),              *)
(*   apply 灵活运用…处理 (20), basics 基础内容, ds 数据结构,                *)
(*   organize 合理组织…起来 (20), cs_is_study 计算机科学是指…研究 (21),      *)
(*   study 对计算和信息处理的系统性研究, shili 示例,                        *)
(*   complexity 排序算法的时间复杂度分析, insertion 插入排序, intro 导论    *)
(***************************************************************************)
WideWords == [i \in 1..16 |-> "w" \o ToString(i)]

WordLen(w) ==
  CASE w = "ch1" -> 3
    [] w = "ch3" -> 3
    [] w = "sort" -> 4
    [] w = "search" -> 4
    [] w = "algo" -> 2
    [] w = "methods" -> 10
    [] w = "practice" -> 20
    [] w = "apply" -> 20
    [] w = "basics" -> 4
    [] w = "ds" -> 4
    [] w = "organize" -> 20
    [] w = "cs_is_study" -> 21
    [] w = "study" -> 14
    [] w = "shili" -> 2
    [] w = "complexity" -> 12
    [] w = "insertion" -> 4
    [] w = "intro" -> 2
    [] w = "python" -> 6
    [] w = "quicksort" -> 9
    [] w \in {WideWords[i] : i \in DOMAIN WideWords} -> 2

\* re.findall(r'[一-龥]{2,}', line)
LineWords(k) ==
  CASE k = "blank"   -> << >>
    [] k = "chapA"   -> <<"ch1", "sort">>
    [] k = "chapD"   -> <<"ch3", "algo", "methods">>
    [] k = "num"     -> <<"sort">>
    [] k = "long"    -> <<"sort", "search", "practice", "apply", "basics">>
    [] k = "mid"     -> <<"search", "ds", "organize", "basics">>
    [] k = "short"   -> <<"basics", "sort">>
    [] k = "bullet"  -> <<"search">>
    [] k = "defn"    -> <<"cs_is_study">>
    [] k = "example" -> <<"shili", "complexity">>
    [] k = "sub"     -> <<"insertion">>
    [] k = "latin"   -> <<"sort", "basics", "practice">>
    [] k = "chapI"   -> <<"ch1", "intro">>
    [] k = "bulletA" -> <<"algo">>
    [] k = "bulletD" -> <<"ds">>
    [] k = "wide"    -> WideWords

\* re.findall(r'[a-zA-Z]{3,}', line)
LineLatin(k) ==
  IF k = "latin" THEN <<"python", "quicksort", "quicksort">> ELSE << >>

(***************************************************************************)
(* Generic helpers.                                                        *)
(***************************************************************************)
Range(s) == {s[i] : i \in 1..Len(s)}

Min(a, b) == IF a <= b THEN a ELSE b

\* s[:n]
Take(s, n) == SubSeq(s, 1, Min(n, Len(s)))

RECURSIVE Flatten(_)
Flatten(ss) == IF ss = << >> THEN << >> ELSE Head(ss) \o Flatten(Tail(ss))

\* Op(e), the value of e being computed once
With(e, Op(_)) == CHOOSE r \in {Op(v) : v \in {e}} : TRUE

\* all sequences over S of length 0..n
SeqsUpTo(S, n) == UNION {[1..m -> S] : m \in 0..n}

(***************************************************************************)
(* Texts.  Lines are joined by "\n"; no line of the alphabet has leading   *)
(* or trailing white space, so strip() of a joined run of non-blank lines  *)
(* is the run itself.                                                      *)
(***************************************************************************)
RECURSIVE SumLen(_)
SumLen(ls) == IF ls = << >> THEN 0 ELSE LineLen(Head(ls)) + SumLen(Tail(ls))

\* len('\n'.join(lines))
JoinedLen(ls) == IF ls = << >> THEN 0 ELSE SumLen(ls) + Len(ls) - 1

\* text.strip() == ''
IsWhitespace(text) == \A i \in 1..Len(text) : text[i] = "blank"

(***************************************************************************)
(* Segmenter: _split_comprehensive.                                        *)
(***************************************************************************)
\* Index (1..5) of the entry of `patterns` that matches at a line of this
\* kind, 0 when none does.  Each match ends at the end of its line: the
\* lazy (.+?) stops at the first position where the lookahead holds, and
\* with re.MULTILINE `$` holds at every end of line.
SplitPatternOf(k) ==
  CASE k \in {"chapA", "chapD", "chapI"} -> 1
    [] k = "num" -> 3
    [] OTHER -> 0

NumSplitPatterns == 5

\* match.group(1).split('\n')[0].strip()
MatchTitle(k) ==
  CASE k = "chapA" -> <<"sort">>
    [] k = "chapD" -> <<"algo_methods">>
    [] k = "num"   -> <<"sort">>
    [] k = "chapI" -> <<"intro">>

\* len(title) for the titles of MatchTitle
MatchTitleLen(k) ==
  CASE k = "chapA" -> 4
    [] k = "chapD" -> 14
    [] k = "num"   -> 4
    [] k = "chapI" -> 2

TitleCap == 200
ParaTitleCap == 100
ParaMinLen == 50
LineMinLen == 30
LineSectionCap == 100

\* list(re.finditer(pattern, text, ...)): the lines where pattern p matches
PatternMatches(p, text) ==
  SelectSeq(text, LAMBDA k : SplitPatternOf(k) = p)

\* p[:room] of the joined lines ls, as a name: the lines that fit whole,
\* then "nl" if the prefix ends with the line break, or "cut" and the line
\* that is cut.  Distinct lines of LineKinds start with distinct
\* characters (chapter lines never occur in a paragraph), so equal names
\* are equal strings and conversely.
RECURSIVE Prefix(_, _)
Prefix(ls, room) ==
  IF ls = << >> \/ room <= 0 THEN << >>
  ELSE LET k == Head(ls)
           l == LineLen(k)
       IN IF l > room THEN <<"cut", k>>
          ELSE IF Tail(ls) = << >> \/ room = l THEN <<k>>
          ELSE IF room = l + 1 THEN <<k, "nl">>
          ELSE <<k>> \o Prefix(Tail(ls), room - l - 1)

\* re.split(r'\n\s*\n', text), stripped: the maximal runs of non-blank lines
RECURSIVE Runs(_, _)
Runs(text, cur) ==
  IF text = << >> THEN (IF cur = << >> THEN << >> ELSE <<cur>>)
  ELSE IF Head(text) = "blank"
       THEN (IF cur = << >> THEN << >> ELSE <<cur>>) \o Runs(Tail(text), << >>)
       ELSE Runs(Tail(text), Append(cur, Head(text)))

\* the paragraph strategy without the test on the paragraph's length
Paragraphs_unfiltered(text) == Runs(text, << >>)

Paragraphs(text) ==
  SelectSeq(Runs(text, << >>), LAMBDA p : JoinedLen(p) > ParaMinLen)

\* the line strategy without the test on the line's length
LongLines_unfiltered(text) == text

LongLines(text) == SelectSeq(text, LAMBDA k : LineLen(k) > LineMinLen)

\* first entry of `patterns` with at least one match, 0 when there is none
RECURSIVE FirstPattern(_, _)
FirstPattern(p, text) ==
  IF p > NumSplitPatterns THEN 0
  ELSE IF Len(PatternMatches(p, text)) >= 1 THEN p
  ELSE FirstPattern(p + 1, text)

_split_comprehensive(text) ==
  LET p == FirstPattern(1, text) IN
  IF p # 0
  THEN LET ms == PatternMatches(p, text) IN
       [i \in 1..Len(ms) |->
          [title |-> IF MatchTitleLen(ms[i]) <= TitleCap
                     THEN MatchTitle(ms[i]) ELSE <<"cut", ms[i]>>,
           content |-> <<ms[i]>>, level |-> 1, order |-> i - 1]]
  ELSE LET paragraphs == Paragraphs(text) IN
       IF paragraphs # << >>
       THEN [i \in 1..Len(paragraphs) |->
               [title |-> Prefix(paragraphs[i], ParaTitleCap),
                content |-> paragraphs[i], level |-> 1, order |-> i - 1]]
       ELSE LET lines == Take(LongLines(text), LineSectionCap) IN
            [i \in 1..Len(lines) |->
               [title |-> Prefix(<<lines[i]>>, ParaTitleCap),
                content |-> <<lines[i]>>, level |-> 1, order |-> i - 1]]

\* the lines at which an entry of `patterns` matches
MarkerKinds == {k \in LineKinds \cup ExampleKinds : SplitPatternOf(k) # 0}

\* len(section['title']), from the name of the title: a title taken from a
\* marker line, or the slice of a paragraph or of a line (a slice that ends
\* inside a line or at a line break is as long as the slice allows)
TitleLen(title) ==
  IF title = << >> THEN 0
  ELSE IF \E k \in MarkerKinds : title = MatchTitle(k)
  THEN MatchTitleLen(CHOOSE k \in MarkerKinds : title = MatchTitle(k))
  ELSE IF title[1] = "cut" /\ Len(title) = 2 /\ title[2] \in MarkerKinds
  THEN TitleCap
  ELSE IF "cut" \in Range(title) \/ "nl" \in Range(title) THEN ParaTitleCap
  ELSE JoinedLen(title)

(***************************************************************************)
(* Point extractor: _extract_all_points_from_section and its helpers.      *)
(* A content is a sequence of pieces <<tag, line>>: the whole line         *)
(* ("line"), the definition text found in it ("def"), its list-item text   *)
(* ("item"), or what follows the example marker in it ("tail").            *)
(* A name is a sequence of atoms; NoneName stands for Python's None.       *)
(* Every name and content built from the alphabet is shorter than the      *)
(* slices applied to it ([:2000], [:300], [:3000], [:1000], [:500],        *)
(* [:10000], [:5000]), so those slices return it whole.                    *)
(***************************************************************************)
NoneName == <<"None">>

AsLines(ls) == [i \in 1..Len(ls) |-> <<"line", ls[i]>>]

DefinitionCap == 100
ListItemCap == 50
ExampleCap == 20
TermMinLen == 2
TermMaxLen == 80
DefnMinLen == 5
DefnMaxLen == 500

\* entry (1..4) of `patterns` in _extract_all_subsections matching the line
SubPatternOf(k) == IF k = "sub" THEN 2 ELSE 0

NumSubPatterns == 4

SubName(k) == <<"insertion">>

RECURSIVE FirstSubPattern(_, _)
FirstSubPattern(p, ls) ==
  IF p > NumSubPatterns THEN 0
  ELSE IF Len(SelectSeq(ls, LAMBDA k : SubPatternOf(k) = p)) >= 2 THEN p
  ELSE FirstSubPattern(p + 1, ls)

_extract_all_subsections(ls) ==
  LET p == FirstSubPattern(1, ls)
      ms == IF p = 0 THEN << >> ELSE SelectSeq(ls, LAMBDA k : SubPatternOf(k) = p)
  IN [i \in 1..Len(ms) |-> [name |-> SubName(ms[i]), content |-> <<<<"line", ms[i]>>>>]]

\* entry (1..4) of `patterns` in _extract_all_definitions matching the line
DefPatternOf(k) ==
  CASE k = "defn" -> 1
    [] k \in {"chapD", "example"} -> 3
    [] OTHER -> 0

NumDefPatterns == 4

\* match.group(1).strip()
DefTerm(k) ==
  CASE k = "defn"    -> <<"cs">>
    [] k = "chapD"   -> <<"ch3_algo">>
    [] k = "example" -> <<"shili1">>

\* len(term)
DefTermLen(k) ==
  CASE k = "defn"    -> 5
    [] k = "chapD"   -> 6
    [] k = "example" -> 3

\* len(defn), without the final full stop
DefTextLen(k) ==
  CASE k = "defn"    -> 14
    [] k = "chapD"   -> 10
    [] k = "example" -> 12

DefsOfPattern(p, ls) ==
  LET ms == SelectSeq(ls, LAMBDA k : /\ DefPatternOf(k) = p
                                     /\ TermMinLen <= DefTermLen(k)
                                     /\ DefTermLen(k) <= TermMaxLen
                                     /\ DefnMinLen <= DefTextLen(k)
                                     /\ DefTextLen(k) <= DefnMaxLen)
  IN [i \in 1..Len(ms) |-> [term |-> DefTerm(ms[i]), definition |-> <<<<"def", ms[i]>>>>]]

_extract_all_definitions(ls) ==
  Take(Flatten([p \in 1..NumDefPatterns |-> DefsOfPattern(p, ls)]), DefinitionCap)

\* entry (1..2) of `patterns` in _extract_list_items matching the line
ItemPatternOf(k) ==
  CASE k \in {"bullet", "bulletA", "bulletD"} -> 1
    [] k = "num" -> 2
    [] OTHER -> 0

NumItemPatterns == 2

\* item_text[:100]
ItemTitle(k) ==
  CASE k = "bullet"  -> <<"search">>
    [] k = "num"     -> <<"sort">>
    [] k = "bulletA" -> <<"algo">>
    [] k = "bulletD" -> <<"ds">>

ItemsOfPattern(p, ls) ==
  LET ms == SelectSeq(ls, LAMBDA k : ItemPatternOf(k) = p)
  IN [i \in 1..Len(ms) |-> [title |-> ItemTitle(ms[i]), content |-> <<<<"item", ms[i]>>>>]]

_extract_list_items(ls) ==
  Take(Flatten([p \in 1..NumItemPatterns |-> ItemsOfPattern(p, ls)]), ListItemCap)

\* f'示例{i+1}'
ExampleTitle(i) == <<"shili" \o ToString(i)>>

\* positions of the lines holding an example marker (entry 1 of `patterns`
\* in _extract_examples; entry 2 matches no line of the alphabet)
ExamplePositions(ls) == {i \in 1..Len(ls) : ls[i] = "example"}

\* the i-th smallest element of a finite set of integers
RECURSIVE Nth(_, _)
Nth(S, i) ==
  LET m == CHOOSE x \in S : \A y \in S : x <= y
  IN IF i = 1 THEN m ELSE Nth(S \ {m}, i - 1)

\* the span of an example: the rest of the marker's line and the lines up
\* to the next marker or the end of the section (re.DOTALL)
ExampleSpan(ls, pos) ==
  LET later == {j \in ExamplePositions(ls) : j > pos}
      last  == IF later = {} THEN Len(ls) ELSE Nth(later, 1) - 1
  IN <<<<"tail", ls[pos]>>>> \o AsLines(SubSeq(ls, pos + 1, last))

_extract_examples(ls) ==
  LET P == ExamplePositions(ls)
      all == [i \in 1..Cardinality(P) |->
                [title |-> ExampleTitle(i), content |-> ExampleSpan(ls, Nth(P, i))]]
  IN Take(all, ExampleCap)

\* One draft.  Absent keys of the Python dict are NoneName / << >>.
Draft(name, content, full, type, level, order, parent, importance) ==
  [name |-> name, content |-> content, full_content |-> full, type |-> type,
   level |-> level, order |-> order, parent_name |-> parent,
   importance |-> importance, keywords |-> << >>]

\* the groups merged in another order: the examples before the list points
_extract_all_points_from_section_examples_first(section, section_num) ==
  LET content == section.content
      title == section.title
      subsections == _extract_all_subsections(content)
      definitions == _extract_all_definitions(content)
      list_items == _extract_list_items(content)
      examples == _extract_examples(content)
  IN <<Draft(title, AsLines(content), AsLines(content), "chapter", 1,
             section_num, NoneName, 5)>>
     \o [i \in 1..Len(subsections) |->
           Draft(subsections[i].name, subsections[i].content, << >>, "section",
                 2, i - 1, title, 4)]
     \o [i \in 1..Len(definitions) |->
           Draft(definitions[i].term, definitions[i].definition, << >>,
                 "definition", 2, Len(subsections) + i - 1, title, 4)]
     \o [i \in 1..Len(examples) |->
           Draft(examples[i].title, examples[i].content, << >>, "example",
                 3, i - 1, title, 3)]
     \o [i \in 1..Len(list_items) |->
           Draft(list_items[i].title, list_items[i].content, << >>, "point",
                 3, i - 1, title, 3)]

_extract_all_points_from_section(section, section_num) ==
  LET content == section.content
      title == section.title
      subsections == _extract_all_subsections(content)
      definitions == _extract_all_definitions(content)
      list_items == _extract_list_items(content)
      examples == _extract_examples(content)
  IN <<Draft(title, AsLines(content), AsLines(content), "chapter", 1,
             section_num, NoneName, 5)>>
     \o [i \in 1..Len(subsections) |->
           Draft(subsections[i].name, subsections[i].content, << >>, "section",
                 2, i - 1, title, 4)]
     \o [i \in 1..Len(definitions) |->
           Draft(definitions[i].term, definitions[i].definition, << >>,
                 "definition", 2, Len(subsections) + i - 1, title, 4)]
     \o [i \in 1..Len(list_items) |->
           Draft(list_items[i].title, list_items[i].content, << >>, "point",
                 3, i - 1, title, 3)]
     \o [i \in 1..Len(examples) |->
           Draft(examples[i].title, examples[i].content, << >>, "example",
                 3, i - 1, title, 3)]

(***************************************************************************)
(* Keyword summarizer: _extract_keywords_advanced.                         *)
(***************************************************************************)
KeywordMinLen == 2
KeywordMaxLen == 20
KeywordCap == 15

\* the words of one piece of content
PieceWords(piece) ==
  LET k == piece[2] IN
  CASE piece[1] = "line" -> LineWords(k)
    [] piece[1] = "def"  -> (CASE k = "defn"    -> <<"study">>
                               [] k = "chapD"   -> <<"methods">>
                               [] k = "example" -> <<"complexity">>)
    [] piece[1] = "item" -> (CASE k = "bullet"  -> <<"search">>
                               [] k = "num"     -> <<"sort">>
                               [] k = "bulletA" -> <<"algo">>
                               [] k = "bulletD" -> <<"ds">>)
    [] piece[1] = "tail" -> <<"complexity">>

\* the Latin words of one piece of content: the definition texts, item
\* texts and example tails of the alphabet hold none
PieceLatin(piece) ==
  IF piece[1] = "line" THEN LineLatin(piece[2]) ELSE << >>

\* words + en_words: the CJK runs of the whole content, then its Latin words
AllWords(content) ==
  Flatten([i \in 1..Len(content) |-> PieceWords(content[i])])
    \o Flatten([i \in 1..Len(content) |-> PieceLatin(content[i])])

\* the keys of word_freq, in insertion order
RECURSIVE Keys(_, _)
Keys(ws, seen) ==
  IF ws = << >> THEN << >>
  ELSE IF Head(ws) \in seen THEN Keys(Tail(ws), seen)
  ELSE <<Head(ws)>> \o Keys(Tail(ws), seen \cup {Head(ws)})

Freq(ws, w) == Cardinality({i \in 1..Len(ws) : ws[i] = w})

\* the same sort, were it not stable: among keys of one frequency the later
\* comes first
SortByFreq_unstable(keys, ws) ==
  LET before(i) == {j \in 1..Len(keys) :
                      \/ Freq(ws, keys[j]) > Freq(ws, keys[i])
                      \/ (Freq(ws, keys[j]) = Freq(ws, keys[i]) /\ j > i)}
  IN [r \in 1..Len(keys) |->
        keys[CHOOSE i \in 1..Len(keys) : Cardinality(before(i)) = r - 1]]

\* sorted(..., key=freq, reverse=True): the sort is stable, so keys[i] comes
\* after the keys of greater frequency and after the earlier keys of the
\* same frequency
SortByFreq(keys, ws) ==
  LET before(i) == {j \in 1..Len(keys) :
                      \/ Freq(ws, keys[j]) > Freq(ws, keys[i])
                      \/ (Freq(ws, keys[j]) = Freq(ws, keys[i]) /\ j < i)}
  IN [r \in 1..Len(keys) |->
        keys[CHOOSE i \in 1..Len(keys) : Cardinality(before(i)) = r - 1]]

_extract_keywords_advanced(content) ==
  With(SelectSeq(AllWords(content),
                 LAMBDA w : KeywordMinLen <= WordLen(w) /\ WordLen(w) <= KeywordMaxLen),
       LAMBDA counted :
         With(Keys(counted, {}),
              LAMBDA keys : Take(SortByFreq(keys, counted), KeywordCap)))

(***************************************************************************)
(* Persistence writer: _save_all_points.                                   *)
(* Ids are fresh (uuid4); the n-th row written gets id base + n.  0 stands *)
(* for None.                                                               *)
(***************************************************************************)
\* range(1, 3): the deeper levels are never visited
SaveLevels_shallow == 1..2

\* range(1, 6)
SaveLevels == 1..5

\* the passes from the deepest level to the first
SaveOrder_deepest_first(points) ==
  Flatten([k \in 1..5 |->
             SelectSeq([i \in 1..Len(points) |-> i],
                       LAMBDA i : points[i].level = 6 - k)])

\* one loop over `points` as they come
SaveOrder_as_extracted(points) == [i \in 1..Len(points) |-> i]

\* indices of `points` in the order the two nested loops visit them
SaveOrder(points) ==
  Flatten([level \in SaveLevels |->
             SelectSeq([i \in 1..Len(points) |-> i],
                       LAMBDA i : points[i].level = level)])

\* a lookup that falls back on the unit written last
Get_or_latest(name_to_id, name) ==
  IF name \in DOMAIN name_to_id THEN name_to_id[name]
  ELSE IF DOMAIN name_to_id = {} THEN 0
  ELSE CHOOSE id \in {name_to_id[n] : n \in DOMAIN name_to_id} :
         \A n \in DOMAIN name_to_id : name_to_id[n] <= id

\* name_to_id.get(name)
Get(name_to_id, name) ==
  IF name \in DOMAIN name_to_id THEN name_to_id[name] ELSE 0

\* name_to_id[name] = id
Put(name_to_id, name, id) ==
  [n \in DOMAIN name_to_id \cup {name} |-> IF n = name THEN id ELSE name_to_id[n]]

EmptyMap == [n \in {} |-> 0]

KnowledgePoint(id, point, parent_id, document_id) ==
  [id |-> id, document_id |-> document_id, point_name |-> point.name,
   point_content |-> point.content, point_type |-> point.type,
   level |-> point.level, parent_id |-> parent_id,
   keywords |-> Take(point.keywords, KeywordCap),
   importance |-> point.importance, order_index |-> point.order,
   full_content |-> point.full_content]

KnowledgeBase(point, document_id, document_type) ==
  [document_id |-> document_id, document_type |-> document_type,
   chunk_text |-> point.content, chunk_index |-> point.order,
   point_name |-> point.name, point_type |-> point.type,
   level |-> point.level, keywords |-> Take(point.keywords, KeywordCap)]

\* a map that already holds the unit being written
NameToId_with_current(points, order, n, base) ==
  LET upto == Min(n + 1, Len(order))
      last(name) == CHOOSE m \in 1..upto :
                      /\ points[order[m]].name = name
                      /\ \A k \in (m + 1)..upto : points[order[k]].name # name
  IN [name \in {points[order[m]].name : m \in 1..upto} |-> base + last(name)]

\* name_to_id after the first n iterations that write: each name written
\* so far maps to the id of the last unit written under it
NameToId(points, order, n, base) ==
  LET last(name) == CHOOSE m \in 1..n :
                      /\ points[order[m]].name = name
                      /\ \A k \in (m + 1)..n : points[order[k]].name # name
  IN [name \in {points[order[m]].name : m \in 1..n} |-> base + last(name)]

\* the state of _save_all_points after the first n iterations that write:
\* the m-th one resolves its parent in the map left by the m - 1 before it
SaveFirst(points, n, base, document_id, document_type) ==
  With(SaveOrder(points), LAMBDA order :
    LET kp(m) == KnowledgePoint(base + m, points[order[m]],
                    Get(NameToId(points, order, m - 1, base),
                        points[order[m]].parent_name),
                    document_id)
    IN [saved |-> [m \in 1..n |-> kp(m)],
        name_to_id |-> NameToId(points, order, n, base),
        kb |-> [m \in 1..n |->
                  KnowledgeBase(points[order[m]], document_id, document_type)]])

_save_all_points(points, base, document_id, document_type) ==
  SaveFirst(points, Len(SaveOrder(points)), base, document_id, document_type)

(***************************************************************************)
(* Graph builder: _build_complete_graph.                                   *)
(* relation_strength min(len(overlap) / 3.0, 1.0) is kept as its number of *)
(* thirds.  The description joins list(overlap)[:5]: the first n elements  *)
(* of a set in its iteration order, kept as the set and n.                 *)
(***************************************************************************)
StrengthDivisor == 3
DescriptionCap == 5

\* loops that visit every pair in both orders
LoopPairs_both_ways(n) ==
  Flatten([i \in 1..n |-> [d \in 1..(n - 1) |-> <<i, IF d < i THEN d ELSE d + 1>>]])

\* the pairs (i, j), i < j, visited by the two loops, in order
LoopPairs(n) ==
  Flatten([i \in 1..n |-> [d \in 1..(n - i) |-> <<i, i + d>>]])

\* a strength without the cap
KnowledgeRelation_uncapped(p1, p2) ==
  LET overlap == Range(p1.keywords) \cap Range(p2.keywords)
  IN [source_point_id |-> p1.id, target_point_id |-> p2.id,
      relation_type |-> "related",
      relation_strength |-> Cardinality(overlap),
      description |-> [of |-> overlap,
                       n |-> Min(Cardinality(overlap), DescriptionCap)]]

KnowledgeRelation(p1, p2) ==
  LET overlap == Range(p1.keywords) \cap Range(p2.keywords)
  IN [source_point_id |-> p1.id, target_point_id |-> p2.id,
      relation_type |-> "related",
      relation_strength |-> Min(Cardinality(overlap), StrengthDivisor),
      description |-> [of |-> overlap,
                       n |-> Min(Cardinality(overlap), DescriptionCap)]]

\* the relations added to the session by the loops, in order
_build_complete_graph(points) ==
  With(SelectSeq(LoopPairs(Len(points)),
                 LAMBDA pr : /\ points[pr[1]].keywords # << >>
                             /\ points[pr[2]].keywords # << >>
                             /\ points[pr[1]].id # points[pr[2]].id
                             /\ Cardinality(Range(points[pr[1]].keywords)
                                   \cap Range(points[pr[2]].keywords)) >= 1),
       LAMBDA linked :
         [e \in 1..Len(linked) |->
            KnowledgeRelation(points[linked[e][1]], points[linked[e][2]])])

(***************************************************************************)
(* Text extractor: _extract_text.                                          *)
(***************************************************************************)
\* the lines a run can meet in a file
RunKinds == {"blank", "chapA", "chapD", "num", "long", "mid", "bullet", "example"}

Texts == SeqsUpTo(RunKinds, MaxLines)

\* the files of the runs checked for termination
LiveTexts == SeqsUpTo(RunKinds, LiveMaxLines)

\* the example of the specification: a heading, a definition, two list
\* items and an example
WorkedExample == <<"chapI", "defn", "bulletA", "bulletD", "example">>

\* texts with more than fifteen distinct words
WideTexts == {<<"wide">>, <<"wide", "latin">>}

\* the texts of the runs in which no stage raises
AlphabetTexts == SeqsUpTo(LineKinds, MaxLines) \cup {WorkedExample} \cup WideTexts

\* documents.py: the extensions upload_course_document accepts, as passed
\* to the run (file_ext[1:])
ALLOWED_EXTENSIONS == {"pdf", "docx", "doc", "txt", "ppt", "pptx"}

\* declared types of the runs of the model
FileTypes == {"pdf", "txt", "pptx"}

\* file_type.lower().replace('.', '') is one of the handled extensions
Supported(file_type) == file_type \in {"pdf", "docx", "doc", "txt", "md"}

\* the message of the exception _extract_text raises for a file it cannot
\* read, or for a type it does not handle
ExtractError(file_type) ==
  CASE file_type = "pdf" -> "PDF parse failed: cannot read"
    [] file_type \in {"docx", "doc"} -> "DOCX parse failed: cannot read"
    [] file_type \in {"txt", "md"} -> "cannot read text file"
    [] OTHER -> "unsupported file type: " \o file_type

(***************************************************************************)
(* The run: process_document_background calling process_document_async.    *)
(*                                                                         *)
(* sess holds the objects of the SQLAlchemy session shared by both         *)
(* functions, db what has been committed; Session.commit() writes every    *)
(* pending change of the session, whoever calls it.                        *)
(***************************************************************************)
VARIABLES
  pc,            \* position of the run
  file_type,     \* declared type of the uploaded file
  file,          \* the text the uploaded file holds
  sess,          \* task, doc, points, kb, rels as the session holds them, and
                 \* past, the task rows earlier runs left for the document
  db,            \* the same, as committed
  doc_bound,     \* the local variable `doc` of process_document_async is assigned
  text,          \* local `text`
  sections,      \* local `sections`
  idx,           \* number of sections handled by the loop of step 3
  all_points,    \* local `all_points`
  saved_points,  \* local `saved_points`
  exc,           \* the exception caught by process_document_async
  escaped,       \* message of the exception that left process_document_async
  result,        \* value returned by process_document_async
  stats_calls,   \* calls of update_knowledge_graph_stats
  now,           \* datetime.utcnow(), as a counter
  runs,          \* the writers of runs that go on side by side, one record each
  parts,         \* the drafts of the sections handled out of order, by section
  response       \* what get_document_processing_progress returned last

vars == <<pc, file_type, file, sess, db, doc_bound, text, sections, idx, all_points,
          saved_points, exc, escaped, result, stats_calls, now, runs, parts,
          response>>

\* the state outside process_document_async and its session
Others == <<runs, parts, response>>
NoResponse == [error |-> "none", status |-> "", progress |-> -1, current_step |-> -1]

NoText == <<"None">>
NoExc == [stage |-> "none", msg |-> ""]
NoResult == [success |-> "none", total_points |-> -1, error |-> ""]
NoResultData == [total_points |-> -1, sections |-> -1, text_length |-> -1]
TotalSteps == 6
DocumentId == 1
DocTypes == {"material", "outline"}

NoTask ==
  [status |-> "absent", progress |-> 0, current_step |-> 0, total_steps |-> 0,
   result_data |-> NoResultData, error_message |-> "", started_at |-> 0,
   completed_at |-> 0]

\* the CourseDocument row written by upload_course_document
NewDocument(document_type) ==
  [document_type |-> document_type, processed_status |-> "pending",
   processing_progress |-> 0, extracted_text |-> NoText, error_message |-> ""]

\* DocumentProcessingTask(...) with the column defaults of the model
NewTask(started_at) ==
  [status |-> "processing", progress |-> 0, current_step |-> 0,
   total_steps |-> TotalSteps, result_data |-> NoResultData,
   error_message |-> "", started_at |-> started_at, completed_at |-> 0]

\* the assignments of _update_progress
_update_progress(task, progress, step, status) ==
  [task EXCEPT !.progress = progress, !.current_step = step, !.status = status]

\* the ratio of line 73 upside down
SectionProgress_inverted(i, n) == 30 + (n * 40) \div (i + 1)

\* 30 + int((idx + 1) / len(sections) * 40), idx counted from 0
SectionProgress(i, n) == 30 + ((i + 1) * 40) \div n

\* the message of the UnboundLocalError raised by reading `doc` unassigned
UnboundDoc == "cannot access local variable 'doc'"

StageError(stage) == stage \o " failed"

InitFrom(files) ==
  /\ pc = "idle"
  /\ file_type \in FileTypes
  /\ file \in files
  /\ \E document_type \in DocTypes :
       /\ sess = [task |-> NoTask, past |-> << >>,
                  doc |-> NewDocument(document_type),
                  points |-> << >>, kb |-> << >>, rels |-> << >>]
       /\ db = sess
  /\ doc_bound = FALSE
  /\ text = NoText
  /\ sections = << >>
  /\ idx = 0
  /\ all_points = << >>
  /\ saved_points = << >>
  /\ exc = NoExc
  /\ escaped = ""
  /\ result = NoResult
  /\ stats_calls = 0
  /\ now = 1
  /\ runs = << >>
  /\ parts = << >>
  /\ response = NoResponse

Init == InitFrom(Texts)

LiveInit == InitFrom(LiveTexts)

Locals == <<doc_bound, text, sections, idx, all_points, saved_points>>

\* a stage raises: control goes to the except clause
Raise(stage, msg) ==
  /\ pc' = "except"
  /\ exc' = [stage |-> stage, msg |-> msg]

\* lines 37-46: the task is created and committed
CreateTask ==
  /\ pc = "idle"
  /\ sess' = [sess EXCEPT !.task = NewTask(now)]
  /\ db' = sess'
  /\ pc' = "created"
  /\ now' = now + 1
  /\ UNCHANGED <<Others, file_type, file, Locals, exc, escaped, result, stats_calls>>

\* line 50
BeginExtract ==
  /\ pc = "created"
  /\ sess' = [sess EXCEPT !.task = _update_progress(@, 5, 1, "processing")]
  /\ db' = sess'
  /\ pc' = "extract"
  /\ now' = now + 1
  /\ UNCHANGED <<Others, file_type, file, Locals, exc, escaped, result, stats_calls>>

\* lines 51-58: the text is extracted and mirrored onto the document
ExtractTextOk ==
  /\ pc = "extract"
  /\ Supported(file_type)
  /\ text' = file
  /\ doc_bound' = TRUE
  /\ sess' = [sess EXCEPT !.doc.extracted_text = text',
                          !.doc.processing_progress = 20]
  /\ db' = sess'
  /\ pc' = "extracted"
  /\ now' = now + 1
  /\ UNCHANGED <<Others, file_type, file, sections, idx, all_points, saved_points, exc,
                 escaped, result, stats_calls>>

\* line 51 raises: a type that is not handled, or a file that cannot be
\* opened or parsed
ExtractTextRaise ==
  /\ pc = "extract"
  /\ Raise("extract", ExtractError(file_type))
  /\ now' = now + 1
  /\ UNCHANGED <<Others, file_type, file, sess, db, Locals, escaped, result, stats_calls>>

\* line 60
AfterExtract ==
  /\ pc = "extracted"
  /\ sess' = [sess EXCEPT !.task = _update_progress(@, 20, 1, "processing")]
  /\ db' = sess'
  /\ pc' = "segment"
  /\ now' = now + 1
  /\ UNCHANGED <<Others, file_type, file, Locals, exc, escaped, result, stats_calls>>

\* lines 63-64
SplitSections ==
  /\ pc = "segment"
  /\ sections' = _split_comprehensive(text)
  /\ sess' = [sess EXCEPT !.task = _update_progress(@, 30, 2, "processing")]
  /\ db' = sess'
  /\ pc' = "points"
  /\ now' = now + 1
  /\ UNCHANGED <<Others, file_type, file, doc_bound, text, idx, all_points, saved_points,
                 exc, escaped, result, stats_calls>>

SplitSectionsRaise ==
  /\ pc = "segment"
  /\ Raise("segment", StageError("segment"))
  /\ now' = now + 1
  /\ UNCHANGED <<Others, file_type, file, sess, db, Locals, escaped, result, stats_calls>>

\* the loop of step 3 without lines 75-77: the document is not touched
ExtractSection_unmirrored ==
  /\ pc = "points"
  /\ idx < Len(sections)
  /\ all_points' = all_points
        \o _extract_all_points_from_section(sections[idx + 1], idx + 1)
  /\ sess' = [sess EXCEPT !.task =
        _update_progress(@, SectionProgress(idx, Len(sections)), 3, "processing")]
  /\ db' = sess'
  /\ idx' = idx + 1
  /\ now' = now + 1
  /\ UNCHANGED <<Others, pc, file_type, file, doc_bound, text, sections, saved_points, exc,
                 escaped, result, stats_calls>>

\* lines 68-77: one iteration of the loop of step 3
ExtractSection ==
  /\ pc = "points"
  /\ idx < Len(sections)
  /\ all_points' = all_points
        \o _extract_all_points_from_section(sections[idx + 1], idx + 1)
  /\ LET progress == SectionProgress(idx, Len(sections)) IN
     sess' = [sess EXCEPT !.task = _update_progress(@, progress, 3, "processing"),
                          !.doc.processing_progress =
                              IF doc_bound THEN progress ELSE @]
  /\ db' = sess'
  /\ idx' = idx + 1
  /\ now' = now + 1
  /\ UNCHANGED <<Others, pc, file_type, file, doc_bound, text, sections, saved_points, exc,
                 escaped, result, stats_calls>>

ExtractSectionRaise ==
  /\ pc = "points"
  /\ idx < Len(sections)
  /\ Raise("points", StageError("points"))
  /\ now' = now + 1
  /\ UNCHANGED <<Others, file_type, file, sess, db, Locals, escaped, result, stats_calls>>

\* step 4 recording its checkpoint without computing the keywords
ExtractKeywords_skipped ==
  /\ pc = "points"
  /\ idx = Len(sections)
  /\ sess' = [sess EXCEPT !.task = _update_progress(@, 80, 4, "processing")]
  /\ db' = sess'
  /\ pc' = "persist"
  /\ now' = now + 1
  /\ UNCHANGED <<Others, file_type, file, doc_bound, text, sections, idx, all_points,
                 saved_points, exc, escaped, result, stats_calls>>

\* lines 80-82, entered when the loop of step 3 is over
ExtractKeywords ==
  /\ pc = "points"
  /\ idx = Len(sections)
  /\ all_points' = [i \in 1..Len(all_points) |->
        [all_points[i] EXCEPT !.keywords =
            _extract_keywords_advanced(all_points[i].content)]]
  /\ sess' = [sess EXCEPT !.task = _update_progress(@, 80, 4, "processing")]
  /\ db' = sess'
  /\ pc' = "persist"
  /\ now' = now + 1
  /\ UNCHANGED <<Others, file_type, file, doc_bound, text, sections, idx, saved_points, exc,
                 escaped, result, stats_calls>>

ExtractKeywordsRaise ==
  /\ pc = "points"
  /\ idx = Len(sections)
  /\ Raise("keywords", StageError("keywords"))
  /\ now' = now + 1
  /\ UNCHANGED <<Others, file_type, file, sess, db, Locals, escaped, result, stats_calls>>

\* a writer that replaces the units and index entries the document has
SavePoints_replacing ==
  /\ pc = "persist"
  /\ \E w \in {_save_all_points(all_points, 0, DocumentId,
                                  sess.doc.document_type)} :
     /\ saved_points' = w.saved
     /\ sess' = [sess EXCEPT !.points = w.saved, !.kb = w.kb,
                             !.task = _update_progress(@, 90, 5, "processing")]
  /\ db' = sess'
  /\ pc' = "graph"
  /\ now' = now + 1
  /\ UNCHANGED <<Others, file_type, file, doc_bound, text, sections, idx, all_points,
                 exc, escaped, result, stats_calls>>

\* lines 85-86: the units and index entries are added and flushed;
\* the commit of _update_progress (line 522) stores them
SavePoints ==
  /\ pc = "persist"
  /\ \E w \in {_save_all_points(all_points, Len(sess.points), DocumentId,
                                  sess.doc.document_type)} :
     /\ saved_points' = w.saved
     /\ sess' = [sess EXCEPT !.points = @ \o w.saved, !.kb = @ \o w.kb,
                             !.task = _update_progress(@, 90, 5, "processing")]
  /\ db' = sess'
  /\ pc' = "graph"
  /\ now' = now + 1
  /\ UNCHANGED <<Others, file_type, file, doc_bound, text, sections, idx, all_points, exc,
                 escaped, result, stats_calls>>

\* line 85 raises after n units have been added to the session
SavePointsRaise ==
  /\ pc = "persist"
  /\ \E n \in 0..Len(SaveOrder(all_points)) :
     \E w \in {SaveFirst(all_points, n, Len(sess.points), DocumentId,
                          sess.doc.document_type)} :
       /\ sess' = [sess EXCEPT !.points = @ \o w.saved, !.kb = @ \o w.kb]
       /\ exc' = [stage |-> "persist", msg |-> StageError("persist")]
  /\ pc' = "except"
  /\ now' = now + 1
  /\ UNCHANGED <<Others, file_type, file, db, Locals, escaped, result, stats_calls>>

\* line 89: the relations are added and committed (line 503), then the
\* statistics are recomputed (lines 506-510)
BuildGraph ==
  /\ pc = "graph"
  /\ sess' = [sess EXCEPT !.rels = @ \o _build_complete_graph(saved_points)]
  /\ db' = sess'
  /\ stats_calls' = stats_calls + 1
  /\ pc' = "complete"
  /\ now' = now + 1
  /\ UNCHANGED <<Others, file_type, file, Locals, exc, escaped, result>>

\* line 89 raises inside the loops, after n relations have been added
BuildGraphRaise ==
  /\ pc = "graph"
  /\ \E rels \in {_build_complete_graph(saved_points)} :
     \E n \in 0..Len(rels) :
       sess' = [sess EXCEPT !.rels = @ \o SubSeq(rels, 1, n)]
  /\ Raise("graph", StageError("graph"))
  /\ now' = now + 1
  /\ UNCHANGED <<Others, file_type, file, db, Locals, escaped, result, stats_calls>>

\* line 506 raises: the relations are already committed
GraphStatsRaise ==
  /\ pc = "graph"
  /\ sess' = [sess EXCEPT !.rels = @ \o _build_complete_graph(saved_points)]
  /\ db' = sess'
  /\ Raise("graph", StageError("graph statistics"))
  /\ now' = now + 1
  /\ UNCHANGED <<Others, file_type, file, Locals, escaped, result, stats_calls>>

\* lines 92-113 without the commit of line 106
Complete_uncommitted ==
  /\ pc = "complete"
  /\ sess' = [sess EXCEPT
       !.task = [@ EXCEPT !.status = "completed", !.progress = 100,
                          !.current_step = 6, !.completed_at = now,
                          !.result_data =
                             [total_points |-> Len(saved_points),
                              sections |-> Len(sections),
                              text_length |-> JoinedLen(text)]],
       !.doc = IF doc_bound
               THEN [@ EXCEPT !.processed_status = "completed",
                              !.processing_progress = 100]
               ELSE @]
  /\ result' = [success |-> "True", total_points |-> Len(saved_points), error |-> ""]
  /\ pc' = "done"
  /\ now' = now + 1
  /\ UNCHANGED <<Others, file_type, file, db, Locals, exc, escaped, stats_calls>>

\* lines 92-113
Complete ==
  /\ pc = "complete"
  /\ sess' = [sess EXCEPT
       !.task = [@ EXCEPT !.status = "completed", !.progress = 100,
                          !.current_step = 6, !.completed_at = now,
                          !.result_data =
                             [total_points |-> Len(saved_points),
                              sections |-> Len(sections),
                              text_length |-> JoinedLen(text)]],
       !.doc = IF doc_bound
               THEN [@ EXCEPT !.processed_status = "completed",
                              !.processing_progress = 100]
               ELSE @]
  /\ db' = sess'
  /\ result' = [success |-> "True", total_points |-> Len(saved_points), error |-> ""]
  /\ pc' = "done"
  /\ now' = now + 1
  /\ UNCHANGED <<Others, file_type, file, Locals, exc, escaped, stats_calls>>

\* lines 116-118 recording a fixed text instead of str(e)
FailTask_generic(task, e, at) ==
  [task EXCEPT !.status = "failed", !.error_message = "processing failed",
               !.completed_at = at]

\* the assignments of lines 116-118
FailTask(task, e, at) ==
  [task EXCEPT !.status = "failed", !.error_message = e.msg, !.completed_at = at]

\* the except clause with a rollback before the failure is recorded
HandleException_rollback ==
  /\ pc = "except"
  /\ IF doc_bound
     THEN /\ sess' = [db EXCEPT !.task = FailTask(@, exc, now),
                                !.doc.processed_status = "failed",
                                !.doc.error_message = exc.msg]
          /\ db' = sess'
          /\ result' = [success |-> "False", total_points |-> -1, error |-> exc.msg]
          /\ pc' = "done"
          /\ UNCHANGED escaped
     ELSE /\ sess' = [db EXCEPT !.task = FailTask(@, exc, now)]
          /\ escaped' = UnboundDoc
          /\ pc' = "fallback"
          /\ UNCHANGED <<db, result>>
  /\ now' = now + 1
  /\ UNCHANGED <<Others, file_type, file, Locals, exc, stats_calls>>

\* lines 115-129: the except clause.  Line 120 reads `doc`, which is
\* assigned at line 54 only: when line 50 or 51 raised, the read raises
\* UnboundLocalError out of the handler, before the commit of line 124.
HandleException ==
  /\ pc = "except"
  /\ IF doc_bound
     THEN /\ sess' = [sess EXCEPT !.task = FailTask(@, exc, now),
                                  !.doc.processed_status = "failed",
                                  !.doc.error_message = exc.msg]
          /\ db' = sess'
          /\ result' = [success |-> "False", total_points |-> -1, error |-> exc.msg]
          /\ pc' = "done"
          /\ UNCHANGED escaped
     ELSE /\ sess' = [sess EXCEPT !.task = FailTask(@, exc, now)]
          /\ escaped' = UnboundDoc
          /\ pc' = "fallback"
          /\ UNCHANGED <<db, result>>
  /\ now' = now + 1
  /\ UNCHANGED <<Others, file_type, file, Locals, exc, stats_calls>>

\* the except clause of process_document_background recording the failure
\* on the task as well
Fallback_rewrites_task ==
  /\ pc = "fallback"
  /\ sess' = [sess EXCEPT !.doc.processed_status = "failed",
                          !.doc.error_message = escaped,
                          !.task.error_message = escaped]
  /\ db' = sess'
  /\ pc' = "done"
  /\ now' = now + 1
  /\ UNCHANGED <<Others, file_type, file, Locals, exc, escaped, result, stats_calls>>

\* documents.py lines 229-235: the except clause of
\* process_document_background, on the session the extractor used
Fallback ==
  /\ pc = "fallback"
  /\ sess' = [sess EXCEPT !.doc.processed_status = "failed",
                          !.doc.error_message = escaped]
  /\ db' = sess'
  /\ pc' = "done"
  /\ now' = now + 1
  /\ UNCHANGED <<Others, file_type, file, Locals, exc, escaped, result, stats_calls>>

Next ==
  \/ CreateTask
  \/ BeginExtract
  \/ ExtractTextOk
  \/ ExtractTextRaise
  \/ AfterExtract
  \/ SplitSections
  \/ SplitSectionsRaise
  \/ ExtractSection
  \/ ExtractSectionRaise
  \/ ExtractKeywords
  \/ ExtractKeywordsRaise
  \/ SavePoints
  \/ SavePointsRaise
  \/ BuildGraph
  \/ BuildGraphRaise
  \/ GraphStatsRaise
  \/ Complete
  \/ HandleException
  \/ Fallback

Spec == Init /\ [][Next]_vars

\* the event loop runs the background task until it returns: no stage
\* call blocks for ever
FairSpec == LiveInit /\ [][Next]_vars /\ WF_vars(Next)

\* the runs of the files of LiveTexts, whatever the scheduling
StageSpec == LiveInit /\ [][Next]_vars

\* the runs of a text file in which no stage raises, over every line of
\* the alphabet
AlphabetInit == InitFrom(AlphabetTexts) /\ file_type = "txt"

AlphabetNext ==
  \/ CreateTask
  \/ BeginExtract
  \/ ExtractTextOk
  \/ AfterExtract
  \/ SplitSections
  \/ ExtractSection
  \/ ExtractKeywords
  \/ SavePoints
  \/ BuildGraph
  \/ Complete

AlphabetSpec == AlphabetInit /\ [][AlphabetNext]_vars

\* documents.py lines 213-227: process_document_background is called once
\* more for the document, with the same file, when the run before has
\* returned; the task of that run stays in the table
StartAgain ==
  /\ pc = "done"
  /\ Len(sess.past) + 1 < MaxRuns
  /\ sess' = [sess EXCEPT !.past = Append(@, sess.task), !.task = NoTask]
  /\ db' = [db EXCEPT !.past = Append(@, db.task), !.task = NoTask]
  /\ pc' = "idle"
  /\ doc_bound' = FALSE
  /\ text' = NoText
  /\ sections' = << >>
  /\ idx' = 0
  /\ all_points' = << >>
  /\ saved_points' = << >>
  /\ exc' = NoExc
  /\ escaped' = ""
  /\ result' = NoResult
  /\ UNCHANGED <<Others, file_type, file, stats_calls, now>>

\* runs of one text file, one after the other, in which no stage raises
RerunInit == InitFrom(LiveTexts) /\ file_type = "txt"

RerunNext ==
  \/ CreateTask
  \/ BeginExtract
  \/ ExtractTextOk
  \/ AfterExtract
  \/ SplitSections
  \/ ExtractSection
  \/ ExtractKeywords
  \/ SavePoints
  \/ BuildGraph
  \/ Complete
  \/ StartAgain

RerunSpec == RerunInit /\ [][RerunNext]_vars

\* all task rows of the document, oldest first
TasksOf(store) ==
  store.past \o (IF store.task = NoTask THEN << >> ELSE <<store.task>>)

\* documents.py lines 292-341, for the owner of the document: the select
\* of lines 314-318 is read with scalar_one_or_none(), which returns the
\* row when there is one, None when there is none, and raises
\* MultipleResultsFound when there are several
get_document_processing_progress(store) ==
  LET tasks == TasksOf(store)
  IN IF Len(tasks) = 0
     THEN [error |-> "", status |-> store.doc.processed_status,
           progress |-> store.doc.processing_progress, current_step |-> -1]
     ELSE IF Len(tasks) = 1
     THEN [error |-> "", status |-> tasks[1].status,
           progress |-> tasks[1].progress, current_step |-> tasks[1].current_step]
     ELSE [error |-> "MultipleResultsFound", status |-> "", progress |-> -1,
           current_step |-> -1]

\* a request to the progress endpoint, at any moment; it reads what is
\* committed
GetProgress ==
  /\ response' = get_document_processing_progress(db)
  /\ UNCHANGED <<pc, file_type, file, sess, db, doc_bound, text, sections, idx,
                 all_points, saved_points, exc, escaped, result, stats_calls, now,
                 runs, parts>>

ProgressNext ==
  \/ RerunNext
  \/ GetProgress

\* the runs of RerunSpec with a client that polls the progress
ProgressSpec == RerunInit /\ [][ProgressNext]_vars

\* The persistence writer and the graph builder applied to lists of drafts:
\* a draft is a chapter, a definition whose parent_name is the name of the
\* chapter or of no draft at all, or a list point, with the keywords step 4
\* gave it.
DraftPool ==
  {[Draft(shape[1], << >>, << >>, shape[2], shape[3], 0, shape[4], shape[5])
      EXCEPT !.keywords = keywords] :
     shape \in {<<<<"sort">>, "chapter", 1, NoneName, 5>>,
                <<<<"search">>, "definition", 2, <<"sort">>, 4>>,
                <<<<"search">>, "definition", 2, <<"intro">>, 4>>},
     keywords \in {<< >>, <<"sort", "algo">>, <<"ds">>}}
  \cup {[Draft(<<"sort">>, << >>, << >>, "point", 3, 0, <<"search">>, 3)
           EXCEPT !.keywords = <<"sort", "algo">>]}

DraftLists == SeqsUpTo(DraftPool, MaxDrafts)

\* the run when step 5 begins
WriterInit ==
  /\ pc = "persist"
  /\ file_type = "txt"
  /\ file = << >>
  /\ all_points \in DraftLists
  /\ sess = [task |-> _update_progress(NewTask(1), 80, 4, "processing"),
             past |-> << >>,
             doc |-> [NewDocument("material") EXCEPT !.extracted_text = << >>,
                                                    !.processing_progress = 20],
             points |-> << >>, kb |-> << >>, rels |-> << >>]
  /\ db = sess
  /\ doc_bound = TRUE
  /\ text = << >>
  /\ sections = << >>
  /\ idx = 0
  /\ saved_points = << >>
  /\ exc = NoExc
  /\ escaped = ""
  /\ result = NoResult
  /\ stats_calls = 0
  /\ now = 7
  /\ runs = << >>
  /\ parts = << >>
  /\ response = NoResponse

WriterNext ==
  \/ SavePoints
  \/ BuildGraph
  \/ Complete

WriterSpec == WriterInit /\ [][WriterNext]_vars

(***************************************************************************)
(* Properties.                                                             *)
(***************************************************************************)
Terminal == {"completed", "failed"}

\* s is an initial segment of t
IsPrefix(s, t) == Len(s) <= Len(t) /\ SubSeq(t, 1, Len(s)) = s

\* the drafts of all sections, section by section
AllDrafts(secs) ==
  Flatten([i \in 1..Len(secs) |-> _extract_all_points_from_section(secs[i], i)])

\* C1: when a stage has raised, the run ends with its task stored as
\* failed, with the stage's message as error_message and completed_at set.
C1_FailureRecorded ==
  (pc = "done" /\ exc # NoExc) =>
     /\ db.task.status = "failed"
     /\ db.task.error_message = exc.msg
     /\ db.task.completed_at # 0

C1_Witness ==
  /\ pc = "done"
  /\ exc.stage = "extract"
  /\ db.task.status = "failed"
  /\ db.task.error_message = ExtractError(file_type)

\* C2: when a stage has raised, text extraction included, the run ends
\* with the document stored as failed and with the task's error message,
\* the message of the stage's exception.
C2_DocumentMirrorsFailure ==
  (pc = "done" /\ exc # NoExc) =>
     /\ db.doc.processed_status = "failed"
     /\ db.doc.error_message = db.task.error_message
     /\ db.doc.error_message = exc.msg

\* C3: no exception leaves process_document_async: the except clause of
\* process_document_background is never entered, and a failed run returns
\* success False with the error text.
C3_SingleBoundary ==
  /\ pc # "fallback"
  /\ escaped = ""
  /\ (pc = "done" /\ exc # NoExc) =>
        (result.success = "False" /\ result.error = exc.msg)

\* C4: a task starts as processing, its status only goes from processing
\* to completed or to failed, and once it is completed or failed no step
\* changes the task, in the session or in the store.
C4_Step(t, u) ==
  /\ (t.status = "absent" /\ u # t) => u.status = "processing"
  /\ (t.status # "absent" /\ u.status # t.status) =>
        (t.status = "processing" /\ u.status \in Terminal)
  /\ t.status \in Terminal => u = t

C4_TerminalIsFinal ==
  [][C4_Step(sess.task, sess'.task) /\ C4_Step(db.task, db'.task)]_vars

C4_Witness ==
  /\ pc = "done"
  /\ escaped # ""
  /\ sess.task.status = "failed"
  /\ sess.task.completed_at + 2 = now

\* C5: every run comes to its end with the task stored as completed or
\* failed.
C5_RunEnds == <>(pc = "done" /\ db.task.status \in Terminal)

C5_Witness ==
  /\ pc = "done"
  /\ escaped = UnboundDoc
  /\ db.task.status = "failed"
  /\ db.task.progress = 5

\* C6: the progress written to the task never decreases and stays within
\* 0..100, and current_step never decreases and never exceeds total_steps,
\* whatever the number of sections.
C6_Task(t, u) ==
  /\ u.progress >= t.progress
  /\ u.progress \in 0..100
  /\ u.current_step >= t.current_step
  /\ u.current_step <= TotalSteps

C6_ProgressMonotonic ==
  [][C6_Task(sess.task, sess'.task) /\ C6_Task(db.task, db'.task)]_vars

C6_Witness ==
  /\ pc = "points"
  /\ Len(sections) = 3
  /\ idx = 2
  /\ db.task.progress = 56
  /\ db.task.current_step = 3

\* C7: a completed task has progress 100, current_step 6 and completed_at
\* set, the document is completed with processing_progress 100, and the
\* result summary counts the sections of the segmenter and the units
\* persisted, one unit per draft of the sections.
C7_CompletedSummary ==
  db.task.status = "completed" =>
     /\ db.task.progress = 100
     /\ db.task.current_step = 6
     /\ db.task.completed_at # 0
     /\ db.doc.processed_status = "completed"
     /\ db.doc.processing_progress = 100
     /\ db.task.result_data.sections = Len(_split_comprehensive(text))
     /\ db.task.result_data.total_points = Len(db.points)
     /\ Len(db.points) = Len(AllDrafts(_split_comprehensive(text)))
     /\ Len(db.kb) = Len(db.points)

C7_Witness ==
  /\ db.task.status = "completed"
  /\ db.task.result_data.sections = 1
  /\ db.task.result_data.total_points = 4
  /\ \E i \in 1..Len(db.points) : db.points[i].level = 2
  /\ \E i \in 1..Len(db.points) : db.points[i].level = 3

\* C8 (as claimed): the document's processing_progress is 20 after text
\* extraction and 100 once the run is over, completed or failed, and takes
\* no other value.
C8_TwoCheckpoints ==
  /\ db.doc.processing_progress \in {0, 20, 100}
  /\ pc = "done" => db.doc.processing_progress = 100

\* C8 (amended): processing_progress is 0 until the text is extracted, 20
\* from then until the first section is handled, the task's step-3 progress
\* after each section, and 100 exactly when the task is completed; a
\* failure writes no progress, so a failed run ends below 100.
C8_ProgressMirror ==
  /\ db.doc.processing_progress =
       IF ~doc_bound THEN 0
       ELSE IF db.task.status = "completed" THEN 100
       ELSE IF idx = 0 THEN 20
       ELSE SectionProgress(idx - 1, Len(sections))
  /\ (pc = "done" /\ exc # NoExc) =>
        /\ db.doc.processing_progress \in {0, 20} \cup 30..70
        /\ exc.stage = "extract" => db.doc.processing_progress = 0

C8_Witness ==
  /\ pc = "done"
  /\ exc.stage = "keywords"
  /\ Len(sections) = 2
  /\ db.doc.processed_status = "failed"
  /\ db.doc.processing_progress = 70

\* C9: when persistence or graph building raises, the units, index entries
\* and relations the session held when the failure was caught are stored
\* once the failure is recorded, stored rows are never removed, and after a
\* failure of the graph builder every draft of the run is a stored unit.
C9_NoCompensation ==
  [][ /\ (pc = "except" /\ exc.stage \in {"persist", "graph"}) =>
            /\ db'.points = sess.points
            /\ db'.kb = sess.kb
            /\ db'.rels = sess.rels
            /\ db'.task.status = "failed"
            /\ exc.stage = "graph" =>
                  (db'.points = saved_points /\ Len(db'.points) = Len(all_points))
      /\ IsPrefix(db.points, db'.points)
      /\ IsPrefix(db.kb, db'.kb)
      /\ IsPrefix(db.rels, db'.rels) ]_vars

C9_Witness ==
  /\ pc = "done"
  /\ exc.stage = "graph"
  /\ db.task.status = "failed"
  /\ Len(db.points) = Len(all_points)
  /\ Len(db.rels) >= 1
  /\ Len(db.rels) < Len(_build_complete_graph(saved_points))

\* C10: a run whose text is empty or white space has no section and no
\* draft, and when no stage raises it ends completed with progress 100,
\* total_points 0 and sections 0, nothing being written.
C10_EmptyText ==
  (doc_bound /\ IsWhitespace(text)) =>
     /\ sections = << >>
     /\ all_points = << >>
     /\ db.points = << >> /\ db.kb = << >> /\ db.rels = << >>
     /\ pc = "points" => idx = 0
     /\ (pc = "done" /\ exc = NoExc) =>
           /\ db.task.status = "completed"
           /\ db.task.progress = 100
           /\ db.task.result_data.total_points = 0
           /\ db.task.result_data.sections = 0
           /\ result.success = "True"

C10_Witness ==
  /\ pc = "done"
  /\ text = <<"blank", "blank">>
  /\ db.task.status = "completed"
  /\ db.task.result_data.total_points = 0

(***************************************************************************)
(* Properties of the stages, over the runs of AlphabetSpec.                *)
(***************************************************************************)
\* _split_comprehensive has returned
Segmented == pc \in {"points", "persist", "graph", "complete", "done"}

\* lines a..b of the text are a maximal run of non-blank lines
IsRun(t, a, b) ==
  /\ a <= b
  /\ \A i \in a..b : t[i] # "blank"
  /\ a = 1 \/ t[a - 1] = "blank"
  /\ b = Len(t) \/ t[b + 1] = "blank"

\* the maximal runs longer than 50 characters
BigRuns(t) ==
  {r \in (1..Len(t)) \X (1..Len(t)) :
     IsRun(t, r[1], r[2]) /\ JoinedLen(SubSeq(t, r[1], r[2])) > ParaMinLen}

\* the contents of secs are the spans of t given by `spans`, in the order
\* of the text
CoversInOrder(secs, t, spans) ==
  /\ Len(secs) = Cardinality(spans)
  /\ \A i \in 1..Len(secs) :
       \E r \in spans :
          /\ secs[i].content = SubSeq(t, r[1], r[2])
          /\ Cardinality({q \in spans : q[1] < r[1]}) = i - 1

\* C11: the segmenter returns the sections of the first step of the cascade
\* that yields one: the marker lines of the first pattern that matches;
\* else the paragraphs longer than 50 characters; else the lines longer
\* than 30 characters.  Sections have level 1, a title of at most 200
\* characters and the orders 0..n-1, in the order of the text.
C11_Cascade ==
  Segmented =>
    LET marked == {i \in 1..Len(text) : text[i] \in MarkerKinds}
        first  == {i \in marked :
                     \A j \in marked :
                        SplitPatternOf(text[i]) <= SplitPatternOf(text[j])}
        lines  == {i \in 1..Len(text) : LineLen(text[i]) > LineMinLen}
    IN /\ \A i \in 1..Len(sections) :
            /\ sections[i].level = 1
            /\ sections[i].order = i - 1
            /\ TitleLen(sections[i].title) <= TitleCap
       /\ IF marked # {}
          THEN CoversInOrder(sections, text, {<<i, i>> : i \in first})
          ELSE IF BigRuns(text) # {}
          THEN CoversInOrder(sections, text, BigRuns(text))
          ELSE CoversInOrder(sections, text, {<<i, i>> : i \in lines})

C11_Witness ==
  /\ pc = "persist"
  /\ text = <<"mid", "blank", "mid">>
  /\ Len(sections) = 2
  /\ sections[2].content = <<"mid">>
  /\ sections[2].order = 1

\* the lines a..b of t without the blank lines that end them
Stripped(t, a, b) ==
  LET full == {i \in a..b : t[i] # "blank"}
  IN IF full = {} THEN << >>
     ELSE SubSeq(t, a, CHOOSE i \in full : \A j \in full : j <= i)

\* C12: when a marker pattern matches, the content of each section runs
\* from its marker to the next marker of the pattern, or to the end of the
\* text: the lines under a heading belong to the heading's section.
C12_SpanToNextMarker ==
  Segmented =>
    LET marked == {i \in 1..Len(text) : text[i] \in MarkerKinds}
        first  == {i \in marked :
                     \A j \in marked :
                        SplitPatternOf(text[i]) <= SplitPatternOf(text[j])}
        last(i) == IF \E j \in first : j > i
                   THEN (CHOOSE j \in first :
                           j > i /\ \A k \in first : k > i => j <= k) - 1
                   ELSE Len(text)
    IN marked # {} =>
         /\ Len(sections) = Cardinality(first)
         /\ \A n \in 1..Len(sections) :
              \E i \in first :
                 /\ Cardinality({j \in first : j < i}) = n - 1
                 /\ sections[n].content = Stripped(text, i, last(i))

\* C13: the worked example gives one section and five drafts: a chapter, the
\* definition of the term 计算机科学, the points 算法 and 数据结构, and an
\* example.
C13_WorkedExample ==
  (text = WorkedExample /\ pc \in {"persist", "graph", "complete", "done"}) =>
     /\ Len(sections) = 1
     /\ Len(all_points) = 5
     /\ [i \in 1..5 |-> all_points[i].type]
          = <<"chapter", "definition", "point", "point", "example">>
     /\ all_points[2].name = <<"cs">>
     /\ all_points[3].name = <<"algo">>
     /\ all_points[4].name = <<"ds">>

\* rank of a draft's group in the list of a section
GroupRank(type) ==
  CASE type = "chapter" -> 0
    [] type = "section" -> 1
    [] type = "definition" -> 2
    [] type = "point" -> 3
    [] type = "example" -> 4

\* the number of lines of ls that satisfy Test
Count(ls, Test(_)) == Cardinality({i \in 1..Len(ls) : Test(ls[i])})

\* the drafts of one section: a chapter draft first, named by the section's
\* title, then the subsections, the definitions, the list points and the
\* examples the section holds (up to the cap of each helper), group after
\* group
SectionDrafts(section, drafts) ==
  LET ls == section.content
      of(type) == Cardinality({i \in 1..Len(drafts) : drafts[i].type = type})
      subs == Count(ls, LAMBDA k : SubPatternOf(k) # 0)
  IN /\ Len(drafts) >= 1
     /\ drafts[1].type = "chapter"
     /\ drafts[1].name = section.title
     /\ drafts[1].level = 1
     /\ drafts[1].importance = 5
     /\ of("chapter") = 1
     /\ \A i \in 1..(Len(drafts) - 1) :
          GroupRank(drafts[i].type) <= GroupRank(drafts[i + 1].type)
     /\ of("section") = IF subs >= 2 THEN subs ELSE 0
     /\ of("definition") =
          Min(Count(ls, LAMBDA k : DefPatternOf(k) # 0), DefinitionCap)
     /\ of("point") = Min(Count(ls, LAMBDA k : ItemPatternOf(k) # 0), ListItemCap)
     /\ of("example") = Min(Count(ls, LAMBDA k : k = "example"), ExampleCap)
     /\ (\A i \in 1..Len(ls) :
            /\ SubPatternOf(ls[i]) = 0 /\ DefPatternOf(ls[i]) = 0
            /\ ItemPatternOf(ls[i]) = 0 /\ ls[i] # "example")
        => Len(drafts) = 1

\* C14: the drafts of every section are one chapter draft (name = title,
\* level 1, importance 5) followed by all its subsections, then all its
\* definitions, then all its list points, then all its examples; a section
\* that matches none of these rules has the chapter draft only.
C14_DraftGroups ==
  [][idx' = idx + 1 =>
       SectionDrafts(sections[idx + 1],
                     SubSeq(all_points', Len(all_points) + 1, Len(all_points')))]_vars

C14_Witness ==
  /\ pc = "persist"
  /\ Len(sections) = 1
  /\ [i \in 1..Len(all_points) |-> all_points[i].type]
       = <<"chapter", "definition", "point", "example">>

\* step 4 is over: every draft has its keywords
Summarized == pc \in {"persist", "graph", "complete", "done"}

\* the words of one piece of content in the order of the text
PieceTokens(piece) ==
  IF piece = <<"line", "latin">>
  THEN <<"python", "sort", "quicksort", "basics", "quicksort", "practice">>
  ELSE PieceWords(piece)

TextTokens(content) == Flatten([i \in 1..Len(content) |-> PieceTokens(content[i])])

\* position of the first occurrence of w in ws
FirstAt(ws, w) == CHOOSE i \in 1..Len(ws) : ws[i] = w /\ \A j \in 1..(i - 1) : ws[j] # w

\* kw are the most frequent words of 2 to 20 characters of `tokens`, at most
\* 15, without duplicates, by descending frequency
TopWords(kw, tokens) ==
  LET kept == {w \in Range(tokens) :
                 KeywordMinLen <= WordLen(w) /\ WordLen(w) <= KeywordMaxLen}
  IN /\ Len(kw) = Min(Cardinality(kept), KeywordCap)
     /\ Range(kw) \subseteq kept
     /\ \A i, j \in 1..Len(kw) : i # j => kw[i] # kw[j]
     /\ \A i \in 1..(Len(kw) - 1) : Freq(tokens, kw[i]) >= Freq(tokens, kw[i + 1])
     /\ \A w \in kept \ Range(kw) :
          \A i \in 1..Len(kw) : Freq(tokens, kw[i]) >= Freq(tokens, w)

\* among words of equal frequency, the one met first in `order` comes first,
\* and is kept first
TiesBy(kw, tokens, order) ==
  /\ \A i, j \in 1..Len(kw) :
       (i < j /\ Freq(tokens, kw[i]) = Freq(tokens, kw[j]))
          => FirstAt(order, kw[i]) < FirstAt(order, kw[j])
  /\ \A i \in 1..Len(kw) :
       \A w \in Range(order) \ Range(kw) :
          (KeywordMinLen <= WordLen(w) /\ WordLen(w) <= KeywordMaxLen
           /\ Freq(tokens, w) = Freq(tokens, kw[i]))
             => FirstAt(order, kw[i]) < FirstAt(order, w)

\* C15 (as claimed): the keywords of a draft are at most 15 words of 2 to 20
\* characters without duplicates, by descending frequency, words of equal
\* frequency in the order of their first occurrence in the text.
C15_FirstSeenInText ==
  Summarized =>
    \A n \in 1..Len(all_points) :
       /\ TopWords(all_points[n].keywords, TextTokens(all_points[n].content))
       /\ TiesBy(all_points[n].keywords, TextTokens(all_points[n].content),
                 TextTokens(all_points[n].content))

\* C15 (amended): as above, but words of equal frequency are in the order of
\* the list the code counts: the CJK runs of the content in text order,
\* then its Latin words in text order.
C15_FirstSeenInCounted ==
  Summarized =>
    \A n \in 1..Len(all_points) :
       /\ TopWords(all_points[n].keywords, TextTokens(all_points[n].content))
       /\ TiesBy(all_points[n].keywords, TextTokens(all_points[n].content),
                 AllWords(all_points[n].content))

C15_Witness ==
  /\ pc = "persist"
  /\ text = <<"wide", "latin">>
  /\ Len(all_points[1].keywords) = 15
  /\ all_points[1].keywords[1] = "quicksort"
  /\ all_points[1].keywords[2] = "w1"
  /\ "python" \notin Range(all_points[1].keywords)

(***************************************************************************)
(* Properties of the persistence writer.                                   *)
(***************************************************************************)
\* step 5 is over
Persisted == pc \in {"graph", "complete", "done"}

\* the draft the m-th unit was written from
DraftOf(m) == all_points[SaveOrder(all_points)[m]]

\* C16: a unit of level 1 has no parent, and a deeper draft whose
\* parent_name is the name of no unit written before it is written with no
\* parent; every draft is written and the run goes on.
C16_UnresolvedIsRoot ==
  Persisted =>
     /\ Len(db.points) = Len(all_points)
     /\ \A m \in 1..Len(db.points) :
          /\ db.points[m].level = 1 => db.points[m].parent_id = 0
          /\ (\A k \in 1..(m - 1) : db.points[k].point_name # DraftOf(m).parent_name)
                => db.points[m].parent_id = 0
     /\ exc = NoExc

C16_Witness ==
  /\ pc = "done"
  /\ db.task.status = "completed"
  /\ Len(db.points) = 3
  /\ db.points[1].level = 1
  /\ db.points[2].level = 2 /\ DraftOf(2).parent_name = <<"intro">>
  /\ db.points[2].parent_id = 0
  /\ db.points[3].level = 2 /\ db.points[3].parent_id = db.points[1].id


\* the unit with the given id
UnitById(id) == CHOOSE u \in Range(db.points) : u.id = id

\* C17: the parent of a unit is a unit of a lower level.
C17_ParentIsShallower ==
  Persisted =>
     \A m \in 1..Len(db.points) :
        db.points[m].parent_id # 0 =>
           UnitById(db.points[m].parent_id).level < db.points[m].level


(***************************************************************************)
(* The search index.  The table behind KnowledgeBase is outside the        *)
(* sources; the index is taken as described: upsert(entry), keyed by       *)
(* (document_id, order).                                                   *)
(***************************************************************************)
IndexKey(entry) == <<entry.document_id, entry.chunk_index>>

\* the index after upsert of the entries in the order they were added: under
\* each key, the entry added last
SearchIndex(entries) ==
  [key \in {IndexKey(entries[i]) : i \in 1..Len(entries)} |->
     entries[CHOOSE i \in 1..Len(entries) :
               /\ IndexKey(entries[i]) = key
               /\ \A j \in (i + 1)..Len(entries) : IndexKey(entries[j]) # key]]

Mirrors(entry, unit) ==
  /\ entry.point_name = unit.point_name
  /\ entry.point_type = unit.point_type
  /\ entry.level = unit.level
  /\ entry.keywords = unit.keywords

\* C18: once the writer has run, the index holds one entry per unit written
\* by the run, each the mirror of its unit.
C18_OneEntryPerUnit ==
  Persisted =>
     \E entry_of \in [1..Len(db.points) -> DOMAIN SearchIndex(db.kb)] :
        /\ \A m, n \in 1..Len(db.points) : entry_of[m] = entry_of[n] => m = n
        /\ \A key \in DOMAIN SearchIndex(db.kb) :
              \E m \in 1..Len(db.points) : entry_of[m] = key
        /\ \A m \in 1..Len(db.points) :
              Mirrors(SearchIndex(db.kb)[entry_of[m]], db.points[m])


(***************************************************************************)
(* Properties of the graph builder.                                        *)
(***************************************************************************)
\* step 6 is over
GraphBuilt == pc = "complete" \/ (pc = "done" /\ db.task.status = "completed")

Shared(a, b) == Range(a.keywords) \cap Range(b.keywords)

\* the relations between two units, in either direction
EdgesBetween(a, b) ==
  {e \in 1..Len(db.rels) :
     {db.rels[e].source_point_id, db.rels[e].target_point_id} = {a.id, b.id}}

\* C19: the graph has one edge for each unordered pair of distinct units
\* that share a keyword and no other edge: none from a unit to itself, none
\* between units that share no keyword, none in both directions.
C19_OneEdgePerLinkedPair ==
  GraphBuilt =>
     /\ \A i, j \in 1..Len(db.points) :
          i < j => Cardinality(EdgesBetween(db.points[i], db.points[j]))
                     = IF Shared(db.points[i], db.points[j]) # {} THEN 1 ELSE 0
     /\ \A e \in 1..Len(db.rels) :
          /\ db.rels[e].source_point_id # db.rels[e].target_point_id
          /\ \E i, j \in 1..Len(db.points) :
               /\ db.rels[e].source_point_id = db.points[i].id
               /\ db.rels[e].target_point_id = db.points[j].id

C19_Witness ==
  /\ GraphBuilt
  /\ Len(db.rels) = 1
  /\ Len(db.points) = 4
  /\ \E i \in 1..Len(db.points) : db.points[i].keywords = << >>
  /\ \E i, j \in 1..Len(db.points) :
       /\ db.points[i].keywords # << >>
       /\ db.points[j].keywords # << >>
       /\ Shared(db.points[i], db.points[j]) = {}


\* relation_strength counts thirds.  The column is DECIMAL(3, 2): the value
\* kept, in hundredths, rounded to the nearest
StrengthScale == 100

Stored(strength) ==
  (2 * StrengthScale * strength + StrengthDivisor) \div (2 * StrengthDivisor)

\* C20: an edge between units that share k >= 1 keywords has strength
\* min(k/3, 1): 1/3 for k = 1, 2/3 for k = 2, 1 from k = 3 on; the value kept
\* lies in (0, 1].
C20_StrengthIsCappedThirds ==
  GraphBuilt =>
     \A e \in 1..Len(db.rels) :
        \E w \in {Cardinality(Shared(UnitById(db.rels[e].source_point_id),
                                     UnitById(db.rels[e].target_point_id)))} :
           /\ w >= 1 /\ w <= KeywordCap
           /\ w = 1 => db.rels[e].relation_strength = 1
           /\ w = 2 => db.rels[e].relation_strength = 2
           /\ w >= 3 => db.rels[e].relation_strength = StrengthDivisor
           /\ Stored(db.rels[e].relation_strength) > 0
           /\ Stored(db.rels[e].relation_strength) <= StrengthScale

C20_Witness ==
  /\ GraphBuilt
  /\ \E e \in 1..Len(db.rels) :
       /\ Cardinality(Shared(UnitById(db.rels[e].source_point_id),
                             UnitById(db.rels[e].target_point_id))) > StrengthDivisor
       /\ db.rels[e].relation_strength = StrengthDivisor
       /\ Stored(db.rels[e].relation_strength) = StrengthScale
  /\ \E e \in 1..Len(db.rels) :
       /\ db.rels[e].relation_strength = 1
       /\ Stored(db.rels[e].relation_strength) = 33


(***************************************************************************)
(* Properties of the upload.                                               *)
(***************************************************************************)
\* _extract_text refused the type of the file
Unsupported == "unsupported file type: " \o file_type

\* C29: a run started for an accepted upload never ends as a failed task
\* because of an unsupported file type.
C29_AcceptedIsSupported ==
  file_type \in ALLOWED_EXTENSIONS =>
     ~(db.task.status = "failed" /\ db.task.error_message = Unsupported)


(***************************************************************************)
(* Properties of the order of the stages.                                  *)
(***************************************************************************)
\* every draft carries the keywords of its content
HasKeywords ==
  \A i \in 1..Len(all_points) :
     all_points[i].keywords = _extract_keywords_advanced(all_points[i].content)

\* the stages, as far as each has finished
Extracted == text = file
SegmentedText == Extracted /\ sections = _split_comprehensive(text)
PointsOf(n) == AllDrafts(SubSeq(sections, 1, n))
AllExtracted ==
  /\ SegmentedText
  /\ idx = Len(sections)
  /\ Len(all_points) = Len(PointsOf(idx))
AllSummarized == AllExtracted /\ HasKeywords
AllWritten ==
  /\ AllSummarized
  /\ Len(saved_points) = Len(all_points)
  /\ SubSeq(sess.points, Len(sess.points) - Len(saved_points) + 1, Len(sess.points))
       = saved_points
AllLinked ==
  /\ AllWritten
  /\ sess.rels = _build_complete_graph(saved_points)
  /\ stats_calls = 1

\* C23: the stages happen in the order extraction, segmentation, point
\* extraction, keyword summarizing, persistence, graph building: a step
\* writes units only when every draft has its keywords, a step creates
\* edges only when every unit has been written, and a step records a
\* checkpoint (20, 30, up to 70, 80, 90, 100) only when its stage has
\* finished.
C23_Checkpoint(progress) ==
  /\ progress = 20 => Extracted'
  /\ progress = 30 => SegmentedText'
  /\ progress > 30 /\ progress < 80 =>
        /\ SegmentedText'
        /\ idx' >= 1
        /\ progress = SectionProgress(idx' - 1, Len(sections'))
        /\ all_points' = PointsOf(idx')
  /\ progress = 80 => AllSummarized'
  /\ progress = 90 => AllWritten'
  /\ progress = 100 => AllLinked'

C23_StagesInOrder ==
  [][/\ sess'.points # sess.points => AllSummarized
     /\ sess'.rels # sess.rels => AllWritten
     /\ db'.task.progress # db.task.progress =>
           /\ db'.task.progress \in {5, 20, 80, 90, 100} \cup 30..70
           /\ C23_Checkpoint(db'.task.progress)
     /\ db'.doc.processing_progress # db.doc.processing_progress =>
           /\ db'.doc.processing_progress \in {20, 100} \cup 31..70
           /\ C23_Checkpoint(db'.doc.processing_progress)]_vars

C23_Witness ==
  /\ pc = "done"
  /\ db.task.status = "completed"
  /\ db.task.progress = 100
  /\ Len(sections) >= 2
  /\ Len(db.points) > Len(sections)
  /\ Len(db.rels) >= 1


(***************************************************************************)
(* Properties of the direction of the edges.                               *)
(***************************************************************************)
\* position in all_points of the draft the unit with this id was written
\* from
DraftIndex(id) ==
  SaveOrder(all_points)[CHOOSE m \in 1..Len(saved_points) : saved_points[m].id = id]

\* C24: the source of an edge is the unit whose draft was extracted
\* earlier, its target the unit whose draft was extracted later.
C24_DirectedByExtraction ==
  GraphBuilt =>
     \A e \in 1..Len(db.rels) :
        DraftIndex(db.rels[e].source_point_id) < DraftIndex(db.rels[e].target_point_id)

\* what a unit keeps of its draft
Kept(u) == <<u.point_name, u.point_type, u.level, u.order_index>>
KeptOfDraft(p) == <<p.name, p.type, p.level, p.order>>
AtLevel(s, level) == SelectSeq(s, LAMBDA x : x.level = level)

\* C24, amended: the source of an edge is the unit written earlier, its
\* target the unit written later; units are written level by level, those of
\* one level in the order their drafts were extracted.
C24_DirectedByWriteOrder ==
  GraphBuilt =>
     /\ \A e \in 1..Len(db.rels) :
          db.rels[e].source_point_id < db.rels[e].target_point_id
     /\ \A m, n \in 1..Len(saved_points) :
          m < n => /\ saved_points[m].id < saved_points[n].id
                   /\ saved_points[m].level <= saved_points[n].level
     /\ \A level \in SaveLevels :
          [m \in 1..Len(AtLevel(saved_points, level)) |->
              Kept(AtLevel(saved_points, level)[m])]
          = [m \in 1..Len(AtLevel(all_points, level)) |->
              KeptOfDraft(AtLevel(all_points, level)[m])]

C24_Witness ==
  /\ GraphBuilt
  /\ \E e \in 1..Len(db.rels) :
       /\ db.rels[e].source_point_id < db.rels[e].target_point_id
       /\ DraftIndex(db.rels[e].source_point_id) > DraftIndex(db.rels[e].target_point_id)


(***************************************************************************)
(* Properties of the parent links.                                         *)
(***************************************************************************)
RECURSIVE ReachesRoot(_, _)
\* following parent links from the unit with this id ends in at most `steps`
\* steps
ReachesRoot(id, steps) ==
  IF id = 0 THEN TRUE
  ELSE IF steps = 0 THEN FALSE
  ELSE ReachesRoot(UnitById(id).parent_id, steps - 1)

\* C26: the parent of a unit is a unit written strictly earlier in the run;
\* no unit is its own parent or ancestor, and the parent links of every
\* unit lead to a root.
C26_ParentsFormForest ==
  Persisted =>
     \A m \in 1..Len(db.points) :
        /\ db.points[m].parent_id # 0 =>
              \E k \in 1..(m - 1) : db.points[k].id = db.points[m].parent_id
        /\ db.points[m].parent_id # db.points[m].id
        /\ ReachesRoot(db.points[m].id, Len(db.points))

C26_Witness ==
  /\ Persisted
  /\ \E m \in 1..Len(db.points) :
       /\ db.points[m].parent_id # 0
       /\ UnitById(db.points[m].parent_id).parent_id # 0
       /\ UnitById(db.points[m].parent_id).point_name = db.points[m].point_name


\* the section the d-th draft of all_points was extracted from
SectionOf(d) ==
  CHOOSE i \in 1..Len(sections) :
     Len(PointsOf(i - 1)) < d /\ d <= Len(PointsOf(i))

\* C27: in a run of the pipeline every unit of level 2 or 3 has a parent,
\* and the name of the parent is the title of the unit's section.
C27_DeeperUnitsHaveParent ==
  Persisted =>
     \A m \in 1..Len(db.points) :
        db.points[m].level \in {2, 3} =>
           /\ db.points[m].parent_id # 0
           /\ UnitById(db.points[m].parent_id).point_name
                = sections[SectionOf(SaveOrder(all_points)[m])].title

C27_Witness ==
  /\ Persisted
  /\ \E m \in 1..Len(db.points) : db.points[m].level = 2 /\ db.points[m].parent_id # 0
  /\ \E m \in 1..Len(db.points) : db.points[m].level = 3 /\ db.points[m].parent_id # 0


C30_LatestTaskReported ==
  [][(response' # response /\ Len(TasksOf(db)) > 1) =>
        LET latest == TasksOf(db)[Len(TasksOf(db))]
        IN /\ response'.error = ""
           /\ response'.status = latest.status
           /\ response'.progress = latest.progress
           /\ response'.current_step = latest.current_step]_vars


(***************************************************************************)
(* Two runs side by side: steps 5 and 6 of process_document_async for two  *)
(* uploads, one loop iteration of _save_all_points at a time.  name_to_id  *)
(* and saved are locals of each call; the rows and their ids come from the *)
(* one database.                                                           *)
(***************************************************************************)
SideKinds == {"num", "chapA", "long"}

SideTexts == SeqsUpTo(SideKinds, MaxSideLines)

\* all_points of a run on this text when step 4 is over
DraftsOfText(t) ==
  With(AllDrafts(_split_comprehensive(t)), LAMBDA drafts :
    [i \in 1..Len(drafts) |->
       [drafts[i] EXCEPT !.keywords = _extract_keywords_advanced(drafts[i].content)]])

\* the locals of _save_all_points when it is entered
SideRun(document_id, t) ==
  [document_id |-> document_id, points |-> DraftsOfText(t), n |-> 0,
   name_to_id |-> EmptyMap, saved |-> << >>, pc |-> "persist"]

\* two uploads, for one document or for two documents of the course
SideInit ==
  /\ pc = "idle"
  /\ file_type = "txt"
  /\ file = << >>
  /\ sess = [task |-> NoTask, past |-> << >>, doc |-> NewDocument("material"),
             points |-> << >>, kb |-> << >>, rels |-> << >>]
  /\ db = sess
  /\ doc_bound = FALSE
  /\ text = NoText
  /\ sections = << >>
  /\ idx = 0
  /\ all_points = << >>
  /\ saved_points = << >>
  /\ exc = NoExc
  /\ escaped = ""
  /\ result = NoResult
  /\ stats_calls = 0
  /\ now = 1
  /\ \E t1, t2 \in SideTexts : \E other \in {DocumentId, DocumentId + 1} :
       runs = <<SideRun(DocumentId, t1), SideRun(other, t2)>>
  /\ parts = << >>
  /\ response = NoResponse

\* one iteration with a name_to_id that all calls share
WriteUnit_shared_map(r) ==
  /\ runs[r].pc = "persist"
  /\ runs[r].n < Len(SaveOrder(runs[r].points))
  /\ LET run == runs[r]
         point == run.points[SaveOrder(run.points)[run.n + 1]]
         id == Len(sess.points) + 1
         LastByName(units) ==
           [name \in {units[m].point_name : m \in 1..Len(units)} |->
              units[CHOOSE m \in 1..Len(units) :
                      /\ units[m].point_name = name
                      /\ \A k \in (m + 1)..Len(units) : units[k].point_name # name].id]
         kp == KnowledgePoint(id, point,
                              Get(LastByName(sess.points), point.parent_name),
                              run.document_id)
     IN /\ sess' = [sess EXCEPT
               !.points = Append(@, kp),
               !.kb = Append(@, KnowledgeBase(point, run.document_id,
                                              sess.doc.document_type))]
        /\ runs' = [runs EXCEPT ![r] =
               [run EXCEPT !.n = @ + 1,
                           !.name_to_id = Put(@, point.name, id),
                           !.saved = Append(@, kp)]]
  /\ db' = sess'
  /\ UNCHANGED <<pc, file_type, file, doc_bound, text, sections, idx, all_points,
                 saved_points, exc, escaped, result, stats_calls, now, parts,
                 response>>

\* lines 428-464: one iteration of the loops of _save_all_points that
\* writes, in run r
WriteUnit(r) ==
  /\ runs[r].pc = "persist"
  /\ runs[r].n < Len(SaveOrder(runs[r].points))
  /\ LET run == runs[r]
         point == run.points[SaveOrder(run.points)[run.n + 1]]
         id == Len(sess.points) + 1
         kp == KnowledgePoint(id, point, Get(run.name_to_id, point.parent_name),
                              run.document_id)
     IN /\ sess' = [sess EXCEPT
               !.points = Append(@, kp),
               !.kb = Append(@, KnowledgeBase(point, run.document_id,
                                              sess.doc.document_type))]
        /\ runs' = [runs EXCEPT ![r] =
               [run EXCEPT !.n = @ + 1,
                           !.name_to_id = Put(@, point.name, id),
                           !.saved = Append(@, kp)]]
  /\ db' = sess'
  /\ UNCHANGED <<pc, file_type, file, doc_bound, text, sections, idx, all_points,
                 saved_points, exc, escaped, result, stats_calls, now, parts,
                 response>>

\* a graph built over every unit of the course
LinkRun_whole_course(r) ==
  /\ runs[r].pc = "persist"
  /\ runs[r].n = Len(SaveOrder(runs[r].points))
  /\ sess' = [sess EXCEPT !.rels = @ \o _build_complete_graph(sess.points)]
  /\ db' = sess'
  /\ runs' = [runs EXCEPT ![r].pc = "done"]
  /\ UNCHANGED <<pc, file_type, file, doc_bound, text, sections, idx, all_points,
                 saved_points, exc, escaped, result, stats_calls, now, parts,
                 response>>

\* lines 85-89: _save_all_points has returned `saved` in run r and
\* _build_complete_graph runs on it
LinkRun(r) ==
  /\ runs[r].pc = "persist"
  /\ runs[r].n = Len(SaveOrder(runs[r].points))
  /\ sess' = [sess EXCEPT !.rels = @ \o _build_complete_graph(runs[r].saved)]
  /\ db' = sess'
  /\ runs' = [runs EXCEPT ![r].pc = "done"]
  /\ UNCHANGED <<pc, file_type, file, doc_bound, text, sections, idx, all_points,
                 saved_points, exc, escaped, result, stats_calls, now, parts,
                 response>>

SideNext ==
  \/ \E r \in DOMAIN runs : WriteUnit(r)
  \/ \E r \in DOMAIN runs : LinkRun(r)

SideSpec == SideInit /\ [][SideNext]_vars

(***************************************************************************)
(* Properties of runs side by side.                                        *)
(***************************************************************************)
\* ids of the units a run has written
IdsOf(run) == {run.saved[m].id : m \in 1..Len(run.saved)}

\* the unit `alone` of a run by itself, with the ids the run got for it and
\* for its parent
C22_Renumbered(alone, mine) ==
  [alone EXCEPT !.id = mine[alone.id].id,
                !.parent_id = IF alone.parent_id = 0 THEN 0
                              ELSE mine[alone.parent_id].id]

\* C22: when two runs on different documents are interleaved, every unit
\* has as parent a unit written by the same run for the same document, and
\* each run writes the units and edges it writes when it runs alone.
C22_RunsDoNotMix ==
  runs[1].document_id # runs[2].document_id =>
     \A r \in DOMAIN runs :
        LET run == runs[r]
            mine == run.saved
            alone == _save_all_points(run.points, 0, run.document_id,
                                      sess.doc.document_type).saved
            links == _build_complete_graph(alone)
        IN /\ \A m \in 1..Len(mine) :
                /\ mine[m] = C22_Renumbered(alone[m], mine)
                /\ mine[m].parent_id # 0 =>
                      \E k \in 1..(m - 1) :
                         /\ mine[k].id = mine[m].parent_id
                         /\ mine[k].document_id = mine[m].document_id
           /\ SelectSeq(sess.points, LAMBDA u : u.document_id = run.document_id)
                = mine
           /\ run.pc = "done" =>
                /\ Len(mine) = Len(alone)
                /\ SelectSeq(sess.rels, LAMBDA e : e.source_point_id \in IdsOf(run))
                     = [e \in 1..Len(links) |->
                          [links[e] EXCEPT
                             !.source_point_id = mine[links[e].source_point_id].id,
                             !.target_point_id = mine[links[e].target_point_id].id]]
                /\ \A e \in 1..Len(sess.rels) :
                     sess.rels[e].target_point_id \in IdsOf(run)
                        => sess.rels[e].source_point_id \in IdsOf(run)

C22_Witness ==
  /\ runs[1].document_id # runs[2].document_id
  /\ runs[1].pc = "done" /\ runs[2].pc = "done"
  /\ Len(runs[1].saved) >= 2 /\ Len(runs[2].saved) >= 2
  /\ runs[1].saved[1].point_name = runs[2].saved[1].point_name
  /\ runs[1].saved[1].id < runs[2].saved[1].id
  /\ runs[2].saved[1].id < runs[1].saved[2].id
  /\ runs[1].saved[2].parent_id = runs[1].saved[1].id
  /\ Len(sess.rels) >= 2

\* C28: every edge joins two units written by the same run, never a unit
\* of a run with a unit of an earlier run or of another document.
C28_EdgesStayInRun ==
  \A e \in 1..Len(sess.rels) :
     \E r \in DOMAIN runs :
        /\ sess.rels[e].source_point_id \in IdsOf(runs[r])
        /\ sess.rels[e].target_point_id \in IdsOf(runs[r])

C28_Witness ==
  /\ runs[1].document_id = runs[2].document_id
  /\ runs[1].pc = "done" /\ runs[2].pc = "done"
  /\ \A a \in IdsOf(runs[1]), b \in IdsOf(runs[2]) : a < b
  /\ \E u \in Range(runs[1].saved), v \in Range(runs[2].saved) : Shared(u, v) # {}
  /\ Len(runs[1].saved) >= 2 /\ Len(runs[2].saved) >= 2
  /\ Len(sess.rels) >= 2


(***************************************************************************)
(* Steps 3 and 4 of process_document_async with the sections taken in any  *)
(* order: the body of each loop is applied to one section at a time, the   *)
(* results are joined in section order, and steps 5 and 6 go on from there.*)
(***************************************************************************)
\* the section is handed its place in the order of handling
ExtractPart_by_rank(i) ==
  /\ pc = "points"
  /\ i \in (1..Len(sections)) \ DOMAIN parts
  /\ parts' = parts @@
       (i :> [rank |-> Cardinality(DOMAIN parts) + 1, keyed |-> FALSE,
              points |-> _extract_all_points_from_section(
                            sections[i], Cardinality(DOMAIN parts) + 1)])
  /\ UNCHANGED <<pc, file_type, file, sess, db, doc_bound, text, sections, idx,
                 all_points, saved_points, exc, escaped, result, stats_calls, now,
                 runs, response>>

\* line 70: section_points of section i, whichever sections came before
ExtractPart(i) ==
  /\ pc = "points"
  /\ i \in (1..Len(sections)) \ DOMAIN parts
  /\ parts' = parts @@
       (i :> [rank |-> Cardinality(DOMAIN parts) + 1, keyed |-> FALSE,
              points |-> _extract_all_points_from_section(sections[i], i)])
  /\ UNCHANGED <<pc, file_type, file, sess, db, doc_bound, text, sections, idx,
                 all_points, saved_points, exc, escaped, result, stats_calls, now,
                 runs, response>>

\* lines 80-81: the keywords of the points of section i
KeywordPart(i) ==
  /\ pc = "points"
  /\ i \in DOMAIN parts
  /\ ~parts[i].keyed
  /\ LET points == parts[i].points IN
     parts' = [parts EXCEPT
        ![i].keyed = TRUE,
        ![i].points = [k \in 1..Len(points) |->
           [points[k] EXCEPT !.keywords =
               _extract_keywords_advanced(points[k].content)]]]
  /\ UNCHANGED <<pc, file_type, file, sess, db, doc_bound, text, sections, idx,
                 all_points, saved_points, exc, escaped, result, stats_calls, now,
                 runs, response>>

\* lines 71 and 82: all_points.extend in section order, then the checkpoint
\* of step 4
Merge ==
  /\ pc = "points"
  /\ DOMAIN parts = 1..Len(sections)
  /\ \A i \in DOMAIN parts : parts[i].keyed
  /\ all_points' = Flatten([i \in 1..Len(sections) |-> parts[i].points])
  /\ idx' = Len(sections)
  /\ sess' = [sess EXCEPT
        !.task = _update_progress(@, 80, 4, "processing"),
        !.doc.processing_progress = IF doc_bound /\ Len(sections) > 0 THEN 70 ELSE @]
  /\ db' = sess'
  /\ pc' = "persist"
  /\ now' = now + 1
  /\ UNCHANGED <<file_type, file, doc_bound, text, sections, saved_points, exc,
                 escaped, result, stats_calls, runs, parts, response>>

ParallelNext ==
  \/ CreateTask \/ BeginExtract \/ ExtractTextOk \/ AfterExtract \/ SplitSections
  \/ \E i \in 1..Len(sections) : ExtractPart(i)
  \/ \E i \in 1..Len(sections) : KeywordPart(i)
  \/ Merge
  \/ SavePoints \/ BuildGraph \/ Complete

ParallelSpec == RerunInit /\ [][ParallelNext]_vars

====
